---- MODULE Spec2Model ----
(***************************************************************************)
(* Memory card game backend: the GameSession state machine and the         *)
(* GameServer registry (src/https.py, src/server.py).                      *)
(*                                                                         *)
(* Spec      : every request handler and every timer callback is one       *)
(*             atomic step (requests handled one after the other).         *)
(* ConcSpec  : two reveal_card calls on one session, interleaved           *)
(*             statement by statement (the code takes no lock).            *)
(* TrackSpec : Spec with a record of the mismatches whose cards have not   *)
(*             yet been reported hidden, and every started timer thread    *)
(*             getting to run.                                             *)
(* RegSpec   : the registry with three connections and two room ids.       *)
(* FullSpec  : the registry with five connections filling one room.        *)
(* HideSpec  : the timer bodies executed card by card among the requests.  *)
(* CastSpec  : broadcast_to_room executed send by send among joins and     *)
(*             disconnects.                                                *)
(* LBSpec    : the load balancer (src/loadbalancer.py): health checks,     *)
(*             selections and proxied connections.                         *)
(* MsgSpec   : the receive loop of handle_client fed with broken messages  *)
(*             among reveals, joins and timers.                            *)
(***************************************************************************)
EXTENDS Integers, Sequences, FiniteSets, Bags, TLC

VARIABLES
    games,           \* GameServer.games: room_id -> GameSession
    client_to_game,  \* GameServer.client_to_game: player_id -> room_id
    next_id,         \* player ids handed out so far (uuid4 values, in order of first use)
    timers,          \* started daemon threads that have not yet run their body
    thr,             \* ConcSpec: per worker, the reveal_card call it is executing;
                     \* HideSpec: the timer bodies under way; CastSpec: the handler;
                     \* MsgSpec: the receive loops that ended, the last broken message
    base,            \* ConcSpec: the session as it was before the two calls
    shown,           \* TrackSpec: the mismatches whose two cards have not both been
                     \* reported hidden since (a record of the past, not program state)
    closed,          \* RegSpec: the player ids of the connections that have ended
    servers,            \* LoadBalancer.servers: the ServerHealth of each backend, in pool order
    round_robin_index,  \* LoadBalancer.round_robin_index
    current_strategy,   \* LoadBalancer.current_strategy
    net              \* LBSpec: the backends that accept connections, the proxied
                     \* connections under way, and a record of the past selections

vars == <<games, client_to_game, next_id, timers, thr, base, shown, closed,
          servers, round_robin_index, current_strategy, net>>

lbvars == <<servers, round_robin_index, current_strategy, net>>

\* LoadBalancer.__init__: no server added, nothing proxied
NoBalancer ==
    /\ servers = <<>>
    /\ round_robin_index = 0
    /\ current_strategy = "least_connections"
    /\ net = <<>>

----------------------------------------------------------------------------
(* Bounds of the model *)

\* Number of pairs in a deck (the code's default is 8).
Pairs == 2
\* Number of client connections.
NumClients == 3
\* Daemon timer threads pending at one time.
MaxTimers == 2

(* Program constants *)

\* add_player: len(self.players) < 4
MaxPlayers == 4
\* add_player: len(self.players) >= 2 starts the game
MinPlayers == 2
\* Python's None (current_player_id before the start; a withheld card value)
None == 0

ClientIds == 1 .. NumClients
RoomIds == {"R1"}
Levels == {"normal", "easy"}
NumCards == 2 * Pairs
CardIds == 0 .. (NumCards - 1)
\* card_id values a client may send: in range, too large, negative
CardInputs == (0 - (NumCards + 1)) .. NumCards
Values == 1 .. Pairs

\* GameState
WAITING_FOR_PLAYERS == "waiting"
IN_PROGRESS == "in_progress"
FINISHED == "finished"

----------------------------------------------------------------------------
(* Helpers on sequences *)

Range(s) == {s[i] : i \in DOMAIN s}

\* list.index(x): the first position of x (1-based here), 0 when absent
IndexOf(s, x) ==
    IF x \in Range(s) THEN CHOOSE i \in DOMAIN s : s[i] = x /\ \A j \in 1 .. (i - 1) : s[j] # x
    ELSE 0

\* del d[x] on an insertion-ordered dict's key list
Remove(s, x) == SelectSeq(s, LAMBDA y : y # x)

----------------------------------------------------------------------------
(* Card, Player, GameSession *)

Card(value) == [value |-> value, is_revealed |-> FALSE, is_matched |-> FALSE]

Player == [score |-> 0, is_turn |-> FALSE]

\* initialize_cards: every value twice, in any order (random.shuffle). The
\* values are names only: card 0 is taken to carry the first of them.
Layouts ==
    {l \in [CardIds -> Values] :
        /\ l[0] = 1
        /\ \A v \in Values : Cardinality({i \in CardIds : l[i] = v}) = 2}

\* GameSession.__init__
GameSession(level, layout) ==
    [ level             |-> level,
      player_ids        |-> <<>>,
      players           |-> <<>>,
      cards             |-> [i \in CardIds |-> Card(layout[i])],
      state             |-> WAITING_FOR_PLAYERS,
      current_player_id |-> None,
      revealed_cards    |-> <<>> ]

\* self.players[pid] = player on an insertion-ordered dict
PutPlayer(s, pid) ==
    IF pid \in Range(s.player_ids)
    THEN [s EXCEPT !.players = [@ EXCEPT ![pid] = Player]]
    ELSE [s EXCEPT !.player_ids = Append(@, pid),
                   !.players = [q \in Range(s.player_ids) \cup {pid} |->
                                   IF q = pid THEN Player ELSE s.players[q]]]

\* start_game; choice is what random.choice(player_ids) returns
start_game(s, choice) ==
    LET s1 == [s EXCEPT !.state = IN_PROGRESS,
                        !.current_player_id = choice,
                        !.players = [@ EXCEPT ![choice] = [@ EXCEPT !.is_turn = TRUE]]]
    IN  IF s.level = "easy"
        THEN [s1 EXCEPT !.cards = [i \in CardIds |-> [s1.cards[i] EXCEPT !.is_revealed = TRUE]]]
        ELSE s1

\* add_player that starts the game only with the third player
add_player_three(s, pid, choice) ==
    IF Len(s.player_ids) < MaxPlayers
    THEN LET s1 == PutPlayer(s, pid)
         IN  IF Len(s1.player_ids) >= MinPlayers + 1
             THEN [session |-> start_game(s1, choice), ok |-> TRUE, started |-> TRUE]
             ELSE [session |-> s1, ok |-> TRUE, started |-> FALSE]
    ELSE [session |-> s, ok |-> FALSE, started |-> FALSE]

\* add_player that admits a player while the room has four
add_player_five(s, pid, choice) ==
    IF Len(s.player_ids) <= MaxPlayers
    THEN LET s1 == PutPlayer(s, pid)
         IN  IF Len(s1.player_ids) >= MinPlayers
             THEN [session |-> start_game(s1, choice), ok |-> TRUE, started |-> TRUE]
             ELSE [session |-> s1, ok |-> TRUE, started |-> FALSE]
    ELSE [session |-> s, ok |-> FALSE, started |-> FALSE]

\* add_player: [session, ok, started]
add_player(s, pid, choice) ==
    IF Len(s.player_ids) < MaxPlayers
    THEN LET s1 == PutPlayer(s, pid)
         IN  IF Len(s1.player_ids) >= MinPlayers
             THEN [session |-> start_game(s1, choice), ok |-> TRUE, started |-> TRUE]
             ELSE [session |-> s1, ok |-> TRUE, started |-> FALSE]
    ELSE [session |-> s, ok |-> FALSE, started |-> FALSE]

\* switch_turn that leaves the previous player's is_turn flag set
switch_turn_noclear(s) ==
    LET current_index == IndexOf(s.player_ids, s.current_player_id)
        nxt == s.player_ids[(current_index % Len(s.player_ids)) + 1]
    IN  [s EXCEPT !.players = [@ EXCEPT ![nxt] = [@ EXCEPT !.is_turn = TRUE]],
                  !.current_player_id = nxt]

\* switch_turn without the modulo: the last player keeps the turn
switch_turn_nowrap(s) ==
    LET current_index == IndexOf(s.player_ids, s.current_player_id)
        nxt == s.player_ids[IF current_index = Len(s.player_ids)
                            THEN current_index ELSE current_index + 1]
    IN  [s EXCEPT !.players = [[@ EXCEPT ![s.current_player_id] = [@ EXCEPT !.is_turn = FALSE]]
                                  EXCEPT ![nxt] = [@ EXCEPT !.is_turn = TRUE]],
                  !.current_player_id = nxt]

\* switch_turn (called with current_player_id in the player list)
switch_turn(s) ==
    LET current_index == IndexOf(s.player_ids, s.current_player_id)
        next_index == (current_index % Len(s.player_ids)) + 1
        nxt == s.player_ids[next_index]
    IN  [s EXCEPT !.players = [[@ EXCEPT ![s.current_player_id] = [@ EXCEPT !.is_turn = FALSE]]
                                  EXCEPT ![nxt] = [@ EXCEPT !.is_turn = TRUE]],
                  !.current_player_id = nxt]

\* finish_game
finish_game(s) == [s EXCEPT !.state = FINISHED]

\* self.cards[card_id]: Python list indexing, negative indices count from the end
PyIndex(card_id) == IF card_id < 0 THEN card_id + NumCards ELSE card_id

AllMatched(s) == \A i \in CardIds : s.cards[i].is_matched

\* A resolution that never finishes the game
CheckAllMatched_never(s) == s

\* if all(card.is_matched for card in self.cards): self.finish_game()
CheckAllMatched(s) == IF AllMatched(s) THEN finish_game(s) ELSE s

\* What reveal_card hands back: [session, result, hide (the cards of a started
\* hide_cards_later thread, <<>> when none), raised (an exception left the
\* method, here with the session as the statements before it left it)]
Returned(s, result, hide) == [session |-> s, raised |-> FALSE, hide |-> hide, result |-> result]

Raised(s) == [session |-> s, raised |-> TRUE, hide |-> <<>>, result |-> <<>>]

\* A rejection that also drops the pending first pick
Reject_reset(s, message) ==
    Returned([s EXCEPT !.revealed_cards = <<>>], [success |-> FALSE, message |-> message], <<>>)

\* return {"success": False, "message": ...}
Reject(s, message) == Returned(s, [success |-> FALSE, message |-> message], <<>>)

\* A match branch that also passes the turn on
ResolveMatch_switch(s, result, player_id) ==
    LET a == s.revealed_cards[1]
        b == s.revealed_cards[2]
        s1 == [s EXCEPT !.cards = [i \in CardIds |->
                           IF i \in {a, b} THEN [s.cards[i] EXCEPT !.is_matched = TRUE]
                           ELSE s.cards[i]]]
    IN  IF player_id \notin Range(s.player_ids) \/ s.current_player_id \notin Range(s.player_ids)
        THEN Raised(s1)
        ELSE Returned(CheckAllMatched(switch_turn(
                          [s1 EXCEPT !.players = [@ EXCEPT ![player_id] =
                                                     [@ EXCEPT !.score = @ + 1]],
                                     !.revealed_cards = <<>>])),
                      result @@ [match |-> TRUE, continue_turn |-> TRUE], <<>>)

\* reveal_card, the two unresolved cards have equal values
ResolveMatch(s, result, player_id) ==
    LET a == s.revealed_cards[1]
        b == s.revealed_cards[2]
        s1 == [s EXCEPT !.cards = [i \in CardIds |->
                           IF i \in {a, b} THEN [s.cards[i] EXCEPT !.is_matched = TRUE]
                           ELSE s.cards[i]]]
    IN  IF player_id \notin Range(s.player_ids)
        THEN Raised(s1)
        ELSE Returned(CheckAllMatched(
                          [s1 EXCEPT !.players = [@ EXCEPT ![player_id] =
                                                     [@ EXCEPT !.score = @ + 1]],
                                     !.revealed_cards = <<>>]),
                      result @@ [match |-> TRUE, continue_turn |-> TRUE], <<>>)

\* reveal_card, the two unresolved cards have different values
ResolveMismatch(s, result) ==
    LET revealed_copy == s.revealed_cards
        s1 == [s EXCEPT !.revealed_cards = <<>>]
    IN  IF s.current_player_id \notin Range(s.player_ids)
        THEN Raised(s1)
        ELSE Returned(CheckAllMatched(switch_turn(s1)),
                      result @@ [match |-> FALSE, continue_turn |-> FALSE], revealed_copy)

\* A pick that also hands the turn to the next player
RevealOne_switch(s, c) ==
    LET s1 == [s EXCEPT !.cards = [@ EXCEPT ![c] = [@ EXCEPT !.is_revealed = TRUE]],
                        !.revealed_cards = Append(@, c)]
    IN  IF s.current_player_id \in Range(s.player_ids) THEN switch_turn(s1) ELSE s1

\* card.is_revealed = True; self.revealed_cards.append(card)
RevealOne(s, c) ==
    [s EXCEPT !.cards = [@ EXCEPT ![c] = [@ EXCEPT !.is_revealed = TRUE]],
              !.revealed_cards = Append(@, c)]

\* reveal_card
reveal_card(s, card_id, player_id) ==
    IF s.current_player_id # player_id \/ s.state # IN_PROGRESS
    THEN Reject(s, "Not your turn")
    ELSE IF card_id >= NumCards
    THEN Reject(s, "Invalid card selection")
    ELSE IF PyIndex(card_id) \notin CardIds
    THEN Raised(s)
    ELSE IF s.cards[PyIndex(card_id)].is_matched \/ s.cards[PyIndex(card_id)].is_revealed
    THEN Reject(s, "Invalid card selection")
    ELSE LET c == PyIndex(card_id)
             s1 == RevealOne(s, c)
             result == [success |-> TRUE, card |-> [id |-> c, value |-> s.cards[c].value]]
         IN  IF Len(s1.revealed_cards) = 2
             THEN IF s1.cards[s1.revealed_cards[1]].value = s1.cards[s1.revealed_cards[2]].value
                  THEN ResolveMatch(s1, result, player_id)
                  ELSE ResolveMismatch(s1, result)
             ELSE Returned(s1, result, <<>>)

\* get_game_state that serializes every card's value
get_game_state_leak(s) ==
    [ level   |-> s.level,
      state   |-> s.state,
      players |-> [p \in Range(s.player_ids) |->
                      [score |-> s.players[p].score, is_turn |-> s.players[p].is_turn]],
      cards   |-> [i \in CardIds |->
                      [ id       |-> i,
                        revealed |-> s.cards[i].is_revealed \/ s.cards[i].is_matched,
                        value    |-> s.cards[i].value,
                        matched  |-> s.cards[i].is_matched ]],
      current_player |-> s.current_player_id ]

\* get_game_state
get_game_state(s) ==
    [ level   |-> s.level,
      state   |-> s.state,
      players |-> [p \in Range(s.player_ids) |->
                      [score |-> s.players[p].score, is_turn |-> s.players[p].is_turn]],
      cards   |-> [i \in CardIds |->
                      [ id       |-> i,
                        revealed |-> s.cards[i].is_revealed \/ s.cards[i].is_matched,
                        value    |-> IF s.cards[i].is_revealed \/ s.cards[i].is_matched
                                     THEN s.cards[i].value ELSE None,
                        matched  |-> s.cards[i].is_matched ]],
      current_player |-> s.current_player_id ]

\* hide_cards_later's body: for c in revealed_copy: c.is_revealed = False
hide_cards_later(s, revealed_copy) ==
    [s EXCEPT !.cards = [i \in CardIds |->
                            IF i \in Range(revealed_copy)
                            THEN [s.cards[i] EXCEPT !.is_revealed = FALSE]
                            ELSE s.cards[i]]]

\* hide_all_cards's body: every card that is not matched is hidden
hide_all_cards(s) ==
    [s EXCEPT !.cards = [i \in CardIds |->
                            IF ~s.cards[i].is_matched
                            THEN [s.cards[i] EXCEPT !.is_revealed = FALSE]
                            ELSE s.cards[i]]]

----------------------------------------------------------------------------
(* GameServer: the registry and its request handlers (server.py) *)

\* del d[k]
DictDel(d, k) == [x \in (DOMAIN d) \ {k} |-> d[x]]

\* d[k] = v
DictPut(d, k, v) == [x \in (DOMAIN d) \cup {k} |-> IF x = k THEN v ELSE d[x]]

\* A started threading.Thread(target=hide_all_cards / hide_cards_later)
HideAllTimer(r) == [room |-> r, target |-> "hide_all_cards", cards |-> <<>>]
HideLaterTimer(r, revealed_copy) ==
    [room |-> r, target |-> "hide_cards_later", cards |-> revealed_copy]

\* Threads whose session object is no longer in the registry mutate an
\* object no request can reach: they are dropped from the state.
TimersOf(tm, rooms) ==
    LET keep == {t \in BagToSet(tm) : t.room \in rooms}
    IN  [t \in keep |-> tm[t]]

StartTimer(tm, t) == tm (+) SetToBag({t})

\* cleanup_client that looks for the player in every room when it has no
\* back-reference
cleanup_client_scan(g, c2g, player_id) ==
    IF player_id \in DOMAIN c2g
    THEN LET room_id == c2g[player_id]
             g1 == IF room_id \in DOMAIN g /\ player_id \in Range(g[room_id].player_ids)
                   THEN LET s == g[room_id]
                            s1 == [s EXCEPT !.player_ids = Remove(@, player_id),
                                            !.players = DictDel(@, player_id)]
                        IN  IF Len(s1.player_ids) = 0
                            THEN DictDel(g, room_id)
                            ELSE [g EXCEPT ![room_id] = s1]
                   ELSE g
         IN  [games |-> g1, client_to_game |-> DictDel(c2g, player_id)]
    ELSE [games |-> [r \in DOMAIN g |->
                        [g[r] EXCEPT !.player_ids = Remove(@, player_id),
                                     !.players = DictDel(@, player_id)]],
          client_to_game |-> c2g]

\* cleanup_client: [games, client_to_game]
cleanup_client(g, c2g, player_id) ==
    IF player_id \in DOMAIN c2g
    THEN LET room_id == c2g[player_id]
             g1 == IF room_id \in DOMAIN g /\ player_id \in Range(g[room_id].player_ids)
                   THEN LET s == g[room_id]
                            s1 == [s EXCEPT !.player_ids = Remove(@, player_id),
                                            !.players = DictDel(@, player_id)]
                        IN  IF Len(s1.player_ids) = 0
                            THEN DictDel(g, room_id)
                            ELSE [g EXCEPT ![room_id] = s1]
                   ELSE g
         IN  [games |-> g1, client_to_game |-> DictDel(c2g, player_id)]
    ELSE [games |-> g, client_to_game |-> c2g]

\* The reveal_card branch of handle_client_message: what the request does to
\* the session (v), and the response sent back
InGame(c) == c \in DOMAIN client_to_game /\ client_to_game[c] \in DOMAIN games

RevealCall(c, card_id) == reveal_card(games[client_to_game[c]], card_id, c)

RevealResponse(c, card_id) ==
    IF InGame(c)
    THEN LET v == RevealCall(c, card_id)
         IN  IF v.raised
             THEN [success |-> FALSE, message |-> "Server error"]
             ELSE v.result @@ [game_state |-> get_game_state(v.session)]
    ELSE [success |-> FALSE, message |-> "Not in a game"]

\* handle_client_message, action == 'create_room' (create_room + join_room)
\* by a connection that has its player id from uuid4
CreateRoom(c, r, level, layout) ==
    /\ c = next_id + 1
    /\ c \in ClientIds
    /\ next_id' = c
    /\ LET j == add_player(GameSession(level, layout), c, c)
       IN  /\ games' = DictPut(games, r, j.session)
           /\ client_to_game' = DictPut(client_to_game, c, r)
           /\ timers' = TimersOf(timers, (DOMAIN games) \ {r})
    /\ UNCHANGED <<thr, base>>

\* handle_client_message, action == 'join_room'; choice is the outcome of
\* start_game's random.choice
JoinRoom(c, r, choice) ==
    /\ c <= next_id + 1
    /\ c \in ClientIds
    /\ next_id' = IF c > next_id THEN c ELSE next_id
    /\ r \in DOMAIN games
    /\ LET j == add_player(games[r], c, choice)
       IN  /\ j.ok
           /\ IF j.started THEN choice \in Range(j.session.player_ids) ELSE choice = c
           /\ (j.started /\ j.session.level = "easy") => BagCardinality(timers) < MaxTimers
           /\ games' = [games EXCEPT ![r] = j.session]
           /\ client_to_game' = DictPut(client_to_game, c, r)
           /\ timers' = IF j.started /\ j.session.level = "easy"
                        THEN StartTimer(timers, HideAllTimer(r))
                        ELSE timers
    /\ UNCHANGED <<thr, base>>

\* handle_client_message, action == 'reveal_card', by a player in a room
RevealCard(c, card_id) ==
    /\ InGame(c)
    /\ LET r == client_to_game[c]
           v == RevealCall(c, card_id)
       IN  /\ v.hide # <<>> => BagCardinality(timers) < MaxTimers
           /\ games' = [games EXCEPT ![r] = v.session]
           /\ timers' = IF v.hide # <<>>
                        THEN StartTimer(timers, HideLaterTimer(r, v.hide))
                        ELSE timers
    /\ UNCHANGED <<client_to_game, next_id, thr, base>>

\* handle_client: the connection ends, the finally clause runs cleanup_client
Disconnect(c) ==
    /\ c \in DOMAIN client_to_game
    /\ LET v == cleanup_client(games, client_to_game, c)
       IN  /\ games' = v.games
           /\ client_to_game' = v.client_to_game
           /\ timers' = TimersOf(timers, DOMAIN v.games)
    /\ UNCHANGED <<next_id, thr, base>>

\* A started timer thread runs its body (after its sleep)
TimerFires(t) ==
    /\ t \in BagToSet(timers)
    /\ t.room \in DOMAIN games
    /\ games' = [games EXCEPT ![t.room] =
                    IF t.target = "hide_all_cards"
                    THEN hide_all_cards(@)
                    ELSE hide_cards_later(@, t.cards)]
    /\ timers' = timers (-) SetToBag({t})
    /\ UNCHANGED <<client_to_game, next_id, thr, base>>

Init ==
    /\ games = <<>>
    /\ client_to_game = <<>>
    /\ next_id = 0
    /\ timers = EmptyBag
    /\ thr = <<>>
    /\ base = <<>>
    /\ shown = {}
    /\ closed = {}
    /\ NoBalancer

Next ==
    \/ /\ \E r \in RoomIds \ DOMAIN games, level \in Levels, layout \in Layouts :
              CreateRoom(next_id + 1, r, level, layout)
       /\ UNCHANGED <<shown, closed, lbvars>>
    \/ /\ \E r \in RoomIds, choice \in ClientIds : JoinRoom(next_id + 1, r, choice)
       /\ UNCHANGED <<shown, closed, lbvars>>
    \/ /\ \E c \in ClientIds, card_id \in CardInputs : RevealCard(c, card_id)
       /\ UNCHANGED <<shown, closed, lbvars>>
    \/ /\ \E c \in ClientIds : Disconnect(c)
       /\ UNCHANGED <<shown, closed, lbvars>>
    \/ /\ \E t \in BagToSet(timers) : TimerFires(t)
       /\ UNCHANGED <<shown, closed, lbvars>>

Spec == Init /\ [][Next]_vars

\* Every thread that threading.Thread(...).start() can start
HideTimers ==
    {HideAllTimer(r) : r \in RoomIds}
        \cup {HideLaterTimer(r, <<x, y>>) : r \in RoomIds, x \in CardIds, y \in CardIds}

\* The snapshot of session s reports revealed = false for card i
ReportedHidden(s, i) == ~get_game_state(s).cards[i].revealed

\* The hide_cards_later threads that the step has started (a mismatch was
\* resolved in it)
Mismatches ==
    {t \in BagToSet(timers') :
        /\ t.target = "hide_cards_later"
        /\ CopiesIn(t, timers') > CopiesIn(t, timers)}

\* The mismatches, old and new, after which no state has yet been reached
\* whose snapshot reports both cards hidden; a mismatch is forgotten with its
\* room (its thread then never touches a session a request can reach)
StillShown ==
    {t \in shown \cup Mismatches :
        /\ t.room \in DOMAIN games'
        /\ ~(\A i \in Range(t.cards) : ReportedHidden(games'[t.room], i))}

\* Next, with the record of mismatches kept
TrackNext ==
    \/ /\ \E r \in RoomIds \ DOMAIN games, level \in Levels, layout \in Layouts :
              CreateRoom(next_id + 1, r, level, layout)
       /\ shown' = StillShown /\ UNCHANGED <<closed, lbvars>>
    \/ /\ \E r \in RoomIds, choice \in ClientIds : JoinRoom(next_id + 1, r, choice)
       /\ shown' = StillShown /\ UNCHANGED <<closed, lbvars>>
    \/ /\ \E c \in ClientIds, card_id \in CardInputs : RevealCard(c, card_id)
       /\ shown' = StillShown /\ UNCHANGED <<closed, lbvars>>
    \/ /\ \E c \in ClientIds : Disconnect(c)
       /\ shown' = StillShown /\ UNCHANGED <<closed, lbvars>>
    \/ /\ \E t \in BagToSet(timers) : TimerFires(t)
       /\ shown' = StillShown /\ UNCHANGED <<closed, lbvars>>

\* The program with the record of mismatches, every started daemon thread
\* getting to run: its sleep ends and its body executes
TrackSpec ==
    Init /\ [][TrackNext]_vars
         /\ \A t \in HideTimers : WF_vars(TimerFires(t) /\ shown' = StillShown /\ UNCHANGED <<closed, lbvars>>)

----------------------------------------------------------------------------
(* RegSpec, FullSpec: the registry under create_room, join_room and        *)
(* disconnects of any connection, for any room id; the sessions are        *)
(* joined and started but no card is picked.                               *)

\* Number of client connections of RegSpec.
NumConnections == 5

Connections == 1 .. NumConnections
\* The outcomes of create_room's random.choices, and the room ids of requests
RegRoomIds == {"R1", "R2"}

\* The deck of the sessions of RegSpec (one outcome of random.shuffle)
RegLayouts == {[i \in CardIds |-> (i \div 2) + 1]}

\* create_room: self.games[room_id] = GameSession(room_id, level=level),
\* room_id being what random.choices returns
create_room(g, room_id, level, layout) == DictPut(g, room_id, GameSession(level, layout))

\* join_room that records the back-reference of a player it turned away
join_room_record(g, c2g, room_id, pid, choice) ==
    IF room_id \in DOMAIN g
    THEN LET j == add_player(g[room_id], pid, choice)
         IN  [games |-> [g EXCEPT ![room_id] = j.session],
              client_to_game |-> DictPut(c2g, pid, room_id),
              success |-> j.ok, started |-> j.started]
    ELSE [games |-> g, client_to_game |-> c2g, success |-> FALSE, started |-> FALSE]

\* join_room: [games, client_to_game, success, started]
join_room(g, c2g, room_id, pid, choice) ==
    IF room_id \in DOMAIN g
    THEN LET j == add_player(g[room_id], pid, choice)
         IN  IF j.ok
             THEN [games |-> [g EXCEPT ![room_id] = j.session],
                   client_to_game |-> DictPut(c2g, pid, room_id),
                   success |-> TRUE, started |-> j.started]
             ELSE [games |-> g, client_to_game |-> c2g, success |-> FALSE, started |-> FALSE]
    ELSE [games |-> g, client_to_game |-> c2g, success |-> FALSE, started |-> FALSE]

\* The response of handle_client_message to action == 'join_room'
JoinResponse(g, c2g, room_id, pid, choice) ==
    IF room_id \in DOMAIN g
    THEN LET j == join_room(g, c2g, room_id, pid, choice)
         IN  IF j.success
             THEN [success |-> TRUE, room_id |-> room_id, player_id |-> pid,
                   game_state |-> get_game_state(j.games[room_id])]
             ELSE [success |-> FALSE, message |-> "Room is full"]
    ELSE [success |-> FALSE, message |-> "Room not found"]

\* handle_client_message, action == 'reveal_card': [games, response]
reveal_request(g, c2g, pid, card_id) ==
    IF pid \in DOMAIN c2g /\ c2g[pid] \in DOMAIN g
    THEN LET v == reveal_card(g[c2g[pid]], card_id, pid)
             g1 == [g EXCEPT ![c2g[pid]] = v.session]
         IN  [games |-> g1,
              response |-> IF v.raised
                           THEN [success |-> FALSE, message |-> "Server error"]
                           ELSE v.result @@ [game_state |-> get_game_state(v.session)]]
    ELSE [games |-> g, response |-> [success |-> FALSE, message |-> "Not in a game"]]

\* A connection that is open, or the next one that handle_client accepts
Open(c) == c \in Connections /\ c <= next_id + 1 /\ c \notin closed

\* The player ids handed out once connection c has been accepted
Accepted(c) == IF c > next_id THEN c ELSE next_id

\* What random.choice can return in a join by pid: one of the players when
\* the join starts the game (no choice is made otherwise)
Choices(j, room_id, pid) ==
    IF j.started THEN Range(j.games[room_id].player_ids) ELSE {pid}

\* handle_client_message, action == 'create_room', by any open connection
RegCreate(c, room_id, level, layout) ==
    /\ Open(c)
    /\ next_id' = Accepted(c)
    /\ LET j == join_room(create_room(games, room_id, level, layout), client_to_game,
                          room_id, c, c)
       IN  /\ games' = j.games
           /\ client_to_game' = j.client_to_game
           /\ timers' = TimersOf(timers, (DOMAIN games) \ {room_id})
    /\ UNCHANGED <<thr, base, shown, closed, lbvars>>

\* handle_client_message, action == 'join_room', by any open connection
RegJoin(c, room_id, choice) ==
    /\ Open(c)
    /\ next_id' = Accepted(c)
    /\ LET j == join_room(games, client_to_game, room_id, c, choice)
           easy == j.started /\ j.games[room_id].level = "easy"
       IN  /\ choice \in Choices(j, room_id, c)
           /\ easy => BagCardinality(timers) < MaxTimers
           /\ games' = j.games
           /\ client_to_game' = j.client_to_game
           /\ timers' = IF easy THEN StartTimer(timers, HideAllTimer(room_id)) ELSE timers
    /\ UNCHANGED <<thr, base, shown, closed, lbvars>>

\* handle_client: the connection ends, the finally clause runs cleanup_client
RegDisconnect(c) ==
    /\ Open(c)
    /\ next_id' = Accepted(c)
    /\ closed' = closed \cup {c}
    /\ LET v == cleanup_client(games, client_to_game, c)
       IN  /\ games' = v.games
           /\ client_to_game' = v.client_to_game
           /\ timers' = TimersOf(timers, DOMAIN v.games)
    /\ UNCHANGED <<thr, base, shown, lbvars>>

\* Three connections, two room ids, rooms of level "normal" (no timer
\* thread is started)
RegNext ==
    \/ \E c \in ClientIds, room_id \in RegRoomIds, layout \in RegLayouts :
           RegCreate(c, room_id, "normal", layout)
    \/ \E c \in ClientIds, room_id \in RegRoomIds, choice \in ClientIds :
           RegJoin(c, room_id, choice)
    \/ \E c \in ClientIds : RegDisconnect(c)

RegSpec == Init /\ [][RegNext]_vars

\* Five connections, one room id in the table (requests may name another)
FullNext ==
    \/ \E c \in Connections, room_id \in RoomIds, level \in Levels, layout \in RegLayouts :
           RegCreate(c, room_id, level, layout)
    \/ \E c \in Connections, room_id \in RegRoomIds, choice \in Connections :
           RegJoin(c, room_id, choice)
    \/ \E c \in Connections : RegDisconnect(c)
    \/ /\ \E t \in BagToSet(timers) : TimerFires(t)
       /\ UNCHANGED <<shown, closed, lbvars>>

FullSpec == Init /\ [][FullNext]_vars

----------------------------------------------------------------------------
(* ConcSpec: two workers of the thread pool run reveal_card on the same    *)
(* session at once. reveal_card takes no lock, so the workers interleave   *)
(* between its statements; a step below is one statement (or one loop).    *)

Workers == {1, 2}
ConcRoom == "R1"

Idle == [pc |-> "idle", player_id |-> None, card_id |-> 0, card |-> 0,
         result |-> <<>>, revealed_copy |-> <<>>, raised |-> FALSE]

\* The sessions the two calls start from: a normal game that two players
\* have joined, with no card or with one card picked so far.
ConcStart ==
    LET joined == {add_player(add_player(GameSession("normal", l), 1, 1).session, 2, ch).session :
                       l \in Layouts, ch \in {1, 2}}
    IN  joined \cup {reveal_card(s, k, s.current_player_id).session : s \in joined, k \in CardIds}

Sess == games[ConcRoom]

SetSess(s) == games' = [games EXCEPT ![ConcRoom] = s]

Goto(w, label) == thr' = [thr EXCEPT ![w] = [@ EXCEPT !.pc = label]]

Return(w, result) == thr' = [thr EXCEPT ![w] = [@ EXCEPT !.pc = "done", !.result = result]]

Raise(w) == thr' = [thr EXCEPT ![w] = [@ EXCEPT !.pc = "done", !.raised = TRUE]]

\* handle_client_message dispatches a reveal_card request to the session
Call(w, c, card_id) ==
    /\ thr[w].pc = "idle"
    /\ InGame(c)
    /\ thr' = [thr EXCEPT ![w] = [Idle EXCEPT !.pc = "check_turn", !.player_id = c,
                                              !.card_id = card_id]]
    /\ UNCHANGED <<games, client_to_game, next_id, timers, base, shown, closed, lbvars>>

\* if self.current_player_id != player_id or self.state != IN_PROGRESS: return
CheckTurn(w) ==
    /\ thr[w].pc = "check_turn"
    /\ IF Sess.current_player_id # thr[w].player_id \/ Sess.state # IN_PROGRESS
       THEN Return(w, [success |-> FALSE, message |-> "Not your turn"])
       ELSE Goto(w, "check_card")
    /\ UNCHANGED <<games, client_to_game, next_id, timers, base, shown, closed, lbvars>>

\* if card_id >= len(self.cards) or card.is_matched or card.is_revealed: return
CheckCard(w) ==
    /\ thr[w].pc = "check_card"
    /\ LET card_id == thr[w].card_id
       IN  IF card_id >= NumCards
           THEN Return(w, [success |-> FALSE, message |-> "Invalid card selection"])
           ELSE IF PyIndex(card_id) \notin CardIds
           THEN Raise(w)
           ELSE IF Sess.cards[PyIndex(card_id)].is_matched
                     \/ Sess.cards[PyIndex(card_id)].is_revealed
           THEN Return(w, [success |-> FALSE, message |-> "Invalid card selection"])
           ELSE thr' = [thr EXCEPT ![w] = [@ EXCEPT !.pc = "set_revealed",
                                                    !.card = PyIndex(card_id)]]
    /\ UNCHANGED <<games, client_to_game, next_id, timers, base, shown, closed, lbvars>>

\* card.is_revealed = True
SetRevealed(w) ==
    /\ thr[w].pc = "set_revealed"
    /\ SetSess([Sess EXCEPT !.cards = [@ EXCEPT ![thr[w].card] = [@ EXCEPT !.is_revealed = TRUE]]])
    /\ Goto(w, "append")
    /\ UNCHANGED <<client_to_game, next_id, timers, base, shown, closed, lbvars>>

\* self.revealed_cards.append(card); result = {...}
AppendCard(w) ==
    /\ thr[w].pc = "append"
    /\ SetSess([Sess EXCEPT !.revealed_cards = Append(@, thr[w].card)])
    /\ thr' = [thr EXCEPT ![w] = [@ EXCEPT !.pc = "check_len",
                 !.result = [success |-> TRUE,
                             card |-> [id |-> thr[w].card, value |-> Sess.cards[thr[w].card].value]]]]
    /\ UNCHANGED <<client_to_game, next_id, timers, base, shown, closed, lbvars>>

\* if len(self.revealed_cards) == 2: ... else: return result
CheckLen(w) ==
    /\ thr[w].pc = "check_len"
    /\ IF Len(Sess.revealed_cards) = 2 THEN Goto(w, "compare") ELSE Goto(w, "done")
    /\ UNCHANGED <<games, client_to_game, next_id, timers, base, shown, closed, lbvars>>

\* if self.revealed_cards[0].value == self.revealed_cards[1].value
Compare(w) ==
    /\ thr[w].pc = "compare"
    /\ IF Len(Sess.revealed_cards) < 2
       THEN Raise(w)
       ELSE IF Sess.cards[Sess.revealed_cards[1]].value = Sess.cards[Sess.revealed_cards[2]].value
       THEN Goto(w, "mark_matched")
       ELSE Goto(w, "copy")
    /\ UNCHANGED <<games, client_to_game, next_id, timers, base, shown, closed, lbvars>>

\* for c in self.revealed_cards: c.is_matched = True
MarkMatched(w) ==
    /\ thr[w].pc = "mark_matched"
    /\ SetSess([Sess EXCEPT !.cards = [i \in CardIds |->
                   IF i \in Range(Sess.revealed_cards)
                   THEN [Sess.cards[i] EXCEPT !.is_matched = TRUE]
                   ELSE Sess.cards[i]]])
    /\ Goto(w, "add_score")
    /\ UNCHANGED <<client_to_game, next_id, timers, base, shown, closed, lbvars>>

\* self.players[player_id].score += 1; result["match"] = True; ...
AddScore(w) ==
    /\ thr[w].pc = "add_score"
    /\ SetSess([Sess EXCEPT !.players = [@ EXCEPT ![thr[w].player_id] =
                                             [@ EXCEPT !.score = @ + 1]]])
    /\ thr' = [thr EXCEPT ![w] = [@ EXCEPT !.pc = "clear_matched",
                 !.result = @ @@ [match |-> TRUE, continue_turn |-> TRUE]]]
    /\ UNCHANGED <<client_to_game, next_id, timers, base, shown, closed, lbvars>>

\* self.revealed_cards = [] (match branch)
ClearMatched(w) ==
    /\ thr[w].pc = "clear_matched"
    /\ SetSess([Sess EXCEPT !.revealed_cards = <<>>])
    /\ Goto(w, "check_finish")
    /\ UNCHANGED <<client_to_game, next_id, timers, base, shown, closed, lbvars>>

\* result["match"] = False; ...; revealed_copy = list(self.revealed_cards)
CopyRevealed(w) ==
    /\ thr[w].pc = "copy"
    /\ thr' = [thr EXCEPT ![w] = [@ EXCEPT !.pc = "clear_mismatch",
                 !.revealed_copy = Sess.revealed_cards,
                 !.result = @ @@ [match |-> FALSE, continue_turn |-> FALSE]]]
    /\ UNCHANGED <<games, client_to_game, next_id, timers, base, shown, closed, lbvars>>

\* self.revealed_cards = [] (mismatch branch)
ClearMismatch(w) ==
    /\ thr[w].pc = "clear_mismatch"
    /\ SetSess([Sess EXCEPT !.revealed_cards = <<>>])
    /\ Goto(w, "switch_turn")
    /\ UNCHANGED <<client_to_game, next_id, timers, base, shown, closed, lbvars>>

\* self.switch_turn()
SwitchTurn(w) ==
    /\ thr[w].pc = "switch_turn"
    /\ SetSess(switch_turn(Sess))
    /\ Goto(w, "start_thread")
    /\ UNCHANGED <<client_to_game, next_id, timers, base, shown, closed, lbvars>>

\* threading.Thread(target=hide_cards_later, daemon=True).start()
StartThread(w) ==
    /\ thr[w].pc = "start_thread"
    /\ timers' = StartTimer(timers, HideLaterTimer(ConcRoom, thr[w].revealed_copy))
    /\ Goto(w, "check_finish")
    /\ UNCHANGED <<games, client_to_game, next_id, base, shown, closed, lbvars>>

\* if all(card.is_matched for card in self.cards): self.finish_game(); return result
CheckFinish(w) ==
    /\ thr[w].pc = "check_finish"
    /\ IF AllMatched(Sess) THEN SetSess(finish_game(Sess)) ELSE UNCHANGED games
    /\ Goto(w, "done")
    /\ UNCHANGED <<client_to_game, next_id, timers, base, shown, closed, lbvars>>

ConcInit ==
    /\ \E s \in ConcStart :
          /\ games = [r \in {ConcRoom} |-> s]
          /\ base = s
    /\ client_to_game = [c \in {1, 2} |-> ConcRoom]
    /\ next_id = 2
    /\ timers = EmptyBag
    /\ thr = [w \in Workers |-> Idle]
    /\ shown = {}
    /\ closed = {}
    /\ NoBalancer

ConcNext ==
    \/ \E w \in Workers, c \in {1, 2}, card_id \in CardIds : Call(w, c, card_id)
    \/ \E w \in Workers : CheckTurn(w)
    \/ \E w \in Workers : CheckCard(w)
    \/ \E w \in Workers : SetRevealed(w)
    \/ \E w \in Workers : AppendCard(w)
    \/ \E w \in Workers : CheckLen(w)
    \/ \E w \in Workers : Compare(w)
    \/ \E w \in Workers : MarkMatched(w)
    \/ \E w \in Workers : AddScore(w)
    \/ \E w \in Workers : ClearMatched(w)
    \/ \E w \in Workers : CopyRevealed(w)
    \/ \E w \in Workers : ClearMismatch(w)
    \/ \E w \in Workers : SwitchTurn(w)
    \/ \E w \in Workers : StartThread(w)
    \/ \E w \in Workers : CheckFinish(w)

ConcSpec == ConcInit /\ [][ConcNext]_vars

----------------------------------------------------------------------------
(* Properties *)

MatchedCards(s) == {i \in CardIds : s.cards[i].is_matched}

TurnHolders(s) == {p \in Range(s.player_ids) : s.players[p].is_turn}

\* C1: in every reachable state of every session the number of cards with
\* is_matched = true is even.
C1_MatchedCountEven ==
    \A r \in DOMAIN games : Cardinality(MatchedCards(games[r])) % 2 = 0

\* C2: once a card's is_matched flag is true, no later step changes that
\* card's is_matched, is_revealed or value.
C2_MatchedCardImmutable ==
    [][\A r \in (DOMAIN games) \cap (DOMAIN games') : \A i \in CardIds :
          games[r].cards[i].is_matched => games'[r].cards[i] = games[r].cards[i]]_vars

\* C5: whenever a session is InProgress, exactly one player of its player
\* map has is_turn = true.
C5_ExactlyOneTurnHolder ==
    \A r \in DOMAIN games :
        games[r].state = IN_PROGRESS => Cardinality(TurnHolders(games[r])) = 1

\* The reveal_card requests that can be sent in a state: any player id that
\* is in a room, any card_id
RevealInputs == {in \in ClientIds \X CardInputs : InGame(in[1])}

SessionOf(c) == games[client_to_game[c]]

\* C4: with a fixed set of two joined players (a creator and one joiner, no
\* further join, nobody left), whenever the session is InProgress exactly one
\* player has is_turn = true, and that player is current_player.
C4_OneTurnHolderTwoPlayers ==
    \A r \in DOMAIN games :
        (next_id = 2 /\ DOMAIN client_to_game = {1, 2} /\ games[r].state = IN_PROGRESS)
            => TurnHolders(games[r]) = {games[r].current_player_id}

\* C4 witness: two players, nobody else ever joined, and a mismatch has
\* passed the turn (its hide timer is still pending).
C4_Witness ==
    /\ next_id = 2 /\ DOMAIN client_to_game = {1, 2}
    /\ \E r \in DOMAIN games :
          /\ games[r].state = IN_PROGRESS
          /\ \E t \in BagToSet(timers) : t.room = r /\ t.target = "hide_cards_later"

\* A snapshot withholds the value of every card of s that is neither
\* revealed nor matched, and shows no other value than the card's own.
Confidential(snapshot, s) ==
    \A i \in CardIds :
        /\ (~s.cards[i].is_revealed /\ ~s.cards[i].is_matched) => snapshot.cards[i].value = None
        /\ snapshot.cards[i].value # None =>
              /\ s.cards[i].is_revealed \/ s.cards[i].is_matched
              /\ snapshot.cards[i].value = s.cards[i].value

\* C6: in every snapshot (of a session as it stands after any sequence of
\* operations, and in the response to any reveal request) a card that is
\* neither revealed nor matched has value = null, and a non-null value is
\* the value of a revealed or matched card.
C6_SnapshotConfidential ==
    /\ \A r \in DOMAIN games : Confidential(get_game_state(games[r]), games[r])
    /\ \A in \in RevealInputs :
          LET v == RevealCall(in[1], in[2])
              resp == RevealResponse(in[1], in[2])
          IN  "game_state" \in DOMAIN resp => Confidential(resp.game_state, v.session)

\* C6 witness: a running game whose snapshot has to withhold one card and
\* to show another.
C6_Witness ==
    \E r \in DOMAIN games :
        /\ games[r].state = IN_PROGRESS
        /\ \E i \in CardIds : ~games[r].cards[i].is_revealed /\ ~games[r].cards[i].is_matched
        /\ \E i \in CardIds : games[r].cards[i].is_revealed /\ ~games[r].cards[i].is_matched
        /\ \E i \in CardIds : games[r].cards[i].is_matched

\* C7: a Reveal that returns success = false leaves the session unchanged
\* (cards, unresolved list, scores, is_turn flags, current_player, state)
\* and schedules no hide timer.
C7_RejectedRevealChangesNothing ==
    \A in \in RevealInputs :
        LET v == RevealCall(in[1], in[2])
        IN  ~RevealResponse(in[1], in[2]).success
                => v.session = SessionOf(in[1]) /\ v.hide = <<>>

Rejected(in, message) ==
    LET resp == RevealResponse(in[1], in[2])
    IN  ~resp.success /\ resp.message = message

\* C7 witness: a running game with a pending first pick in which requests
\* are rejected for each reason.
C7_Witness ==
    /\ \E in \in RevealInputs : Rejected(in, "Not your turn")
    /\ \E in \in RevealInputs :
          /\ Rejected(in, "Invalid card selection")
          /\ Len(SessionOf(in[1]).revealed_cards) = 1
          /\ in[2] \in CardIds
    /\ \E in \in RevealInputs : Rejected(in, "Server error")

\* C8: Reveal(card_id, player_id) is accepted exactly when state = InProgress,
\* player_id is the current-turn player, 0 <= card_id < number of cards and
\* the card is neither revealed nor matched; otherwise it is rejected with
\* "Not your turn" (player not current or state not InProgress) or with
\* "Invalid card selection" (card id out of range, negative ids included, or
\* card already revealed or matched).
C8_AcceptedExactlyWhenValid ==
    \A in \in RevealInputs :
        LET s == SessionOf(in[1])
            resp == RevealResponse(in[1], in[2])
            turn_ok == s.state = IN_PROGRESS /\ s.current_player_id = in[1]
            card_ok == /\ in[2] \in CardIds
                       /\ ~s.cards[in[2]].is_revealed
                       /\ ~s.cards[in[2]].is_matched
        IN  /\ resp.success <=> (turn_ok /\ card_ok)
            /\ ~turn_ok => resp.message = "Not your turn"
            /\ (turn_ok /\ ~card_ok) => resp.message = "Invalid card selection"

\* An accepted reveal request that completes a pair: the session has one
\* unresolved card before it
CompletesPair(in) ==
    LET v == RevealCall(in[1], in[2])
    IN  /\ ~v.raised
        /\ v.result.success
        /\ Len(SessionOf(in[1]).revealed_cards) = 1

\* The two cards the request resolves
FirstPick(in) == SessionOf(in[1]).revealed_cards[1]
SecondPick(in) == PyIndex(in[2])

EqualValues(in) ==
    SessionOf(in[1]).cards[FirstPick(in)].value = SessionOf(in[1]).cards[SecondPick(in)].value

\* C9: an accepted Reveal that makes the unresolved list hold two cards of
\* equal value marks both matched, adds exactly 1 to the acting player's
\* score and to no other, empties the unresolved list, leaves current_player
\* and all is_turn flags unchanged, and returns match = true and
\* continue_turn = true.
C9_MatchResolution ==
    \A in \in RevealInputs :
        (CompletesPair(in) /\ EqualValues(in)) =>
            LET s == SessionOf(in[1])
                v == RevealCall(in[1], in[2])
                resp == RevealResponse(in[1], in[2])
            IN  /\ v.session.cards[FirstPick(in)].is_matched
                /\ v.session.cards[SecondPick(in)].is_matched
                /\ v.session.player_ids = s.player_ids
                /\ \A p \in Range(s.player_ids) :
                      /\ v.session.players[p].score =
                             s.players[p].score + (IF p = in[1] THEN 1 ELSE 0)
                      /\ v.session.players[p].is_turn = s.players[p].is_turn
                /\ v.session.revealed_cards = <<>>
                /\ v.session.current_player_id = s.current_player_id
                /\ resp.match = TRUE /\ resp.continue_turn = TRUE

\* C9 witness: a state in which the player to move has one card open and can
\* open its partner, reached after an earlier pair was scored.
C9_Witness ==
    /\ \E in \in RevealInputs : CompletesPair(in) /\ EqualValues(in)
    /\ \E r \in DOMAIN games : \E p \in Range(games[r].player_ids) :
          games[r].players[p].score = 1 /\ Cardinality(MatchedCards(games[r])) = 2

\* The player that follows p in the join order of s, wrapping around
Follower(s, p) == s.player_ids[(IndexOf(s.player_ids, p) % Len(s.player_ids)) + 1]

\* C10: an accepted Reveal that makes the unresolved list hold two cards of
\* different values empties the unresolved list, leaves all scores and
\* matched flags unchanged, moves the turn to the player that follows the
\* acting player in join order (wrapping from the last to the first), and
\* returns match = false and continue_turn = false.
C10_MismatchResolution ==
    \A in \in RevealInputs :
        (CompletesPair(in) /\ ~EqualValues(in)) =>
            LET s == SessionOf(in[1])
                v == RevealCall(in[1], in[2])
                resp == RevealResponse(in[1], in[2])
            IN  /\ v.session.revealed_cards = <<>>
                /\ v.session.player_ids = s.player_ids
                /\ \A p \in Range(s.player_ids) :
                      v.session.players[p].score = s.players[p].score
                /\ \A i \in CardIds : v.session.cards[i].is_matched = s.cards[i].is_matched
                /\ v.session.current_player_id = Follower(s, in[1])
                /\ v.session.players[Follower(s, in[1])].is_turn
                /\ (Follower(s, in[1]) # in[1]) => ~v.session.players[in[1]].is_turn
                /\ resp.match = FALSE /\ resp.continue_turn = FALSE

\* C10 witness: three players, the last of the join order is to move and is
\* about to open a second card that does not match the first.
C10_Witness ==
    \E in \in RevealInputs :
        /\ CompletesPair(in) /\ ~EqualValues(in)
        /\ Len(SessionOf(in[1]).player_ids) = 3
        /\ SessionOf(in[1]).player_ids[3] = in[1]

\* What a reveal_card call leaves behind for its caller: the result it
\* returned, or that it raised
Outcome(raised, result) == IF raised THEN [raised |-> TRUE] ELSE [raised |-> FALSE] @@ result

\* The session, the started hide threads and the two outcomes when worker
\* first runs its whole call before worker second starts its own
Sequential(first, second) ==
    LET v1 == reveal_card(base, thr[first].card_id, thr[first].player_id)
        v2 == reveal_card(v1.session, thr[second].card_id, thr[second].player_id)
        started(v) == IF v.hide # <<>>
                      THEN SetToBag({HideLaterTimer(ConcRoom, v.hide)}) ELSE EmptyBag
    IN  [ session |-> v2.session,
          timers  |-> started(v1) (+) started(v2),
          outcome |-> [w \in Workers |->
                          IF w = first THEN Outcome(v1.raised, v1.result)
                          ELSE Outcome(v2.raised, v2.result)] ]

Concurrent ==
    [ session |-> Sess,
      timers  |-> timers,
      outcome |-> [w \in Workers |-> Outcome(thr[w].raised, thr[w].result)] ]

BothDone == \A w \in Workers : thr[w].pc = "done"

\* C3: two Reveal calls executed concurrently on one room leave the session
\* in a state, and return results, that one of the two sequential orders of
\* the calls produces.
C3_RevealsLinearizable ==
    BothDone => Concurrent \in {Sequential(1, 2), Sequential(2, 1)}

\* C11: after every mismatch resolution on cards x and y, given that the
\* started hide thread gets to run, a state is eventually reached in which
\* the snapshot reports revealed = false for both x and y.
C11_MismatchEventuallyHidden ==
    \A t \in HideTimers : (t \in shown) ~> (t \notin shown)

\* An accepted reveal request after which the unresolved list holds exactly
\* one card
LeavesOne(in) ==
    LET v == RevealCall(in[1], in[2])
    IN  ~v.raised /\ v.result.success /\ Len(v.session.revealed_cards) = 1

\* C12: an accepted Reveal that leaves exactly one card in the unresolved
\* list returns success with that card's id and value, marks only that card
\* revealed, and leaves current_player, is_turn flags, scores and matched
\* flags unchanged.
C12_FirstPickFrame ==
    \A in \in RevealInputs :
        LeavesOne(in) =>
            LET s == SessionOf(in[1])
                v == RevealCall(in[1], in[2])
                resp == RevealResponse(in[1], in[2])
                c == v.session.revealed_cards[1]
            IN  /\ resp.success
                /\ resp.card = [id |-> c, value |-> s.cards[c].value]
                /\ DOMAIN resp = {"success", "card", "game_state"}
                /\ ~s.cards[c].is_revealed
                /\ v.session.cards = [s.cards EXCEPT ![c] = [@ EXCEPT !.is_revealed = TRUE]]
                /\ v.session.current_player_id = s.current_player_id
                /\ v.session.player_ids = s.player_ids
                /\ v.session.players = s.players
                /\ v.session.state = s.state
                /\ v.hide = <<>>

\* C12 witness: three players, a pair already scored, and the player to move
\* can open a first card.
C12_Witness ==
    \E in \in RevealInputs :
        /\ LeavesOne(in)
        /\ Len(SessionOf(in[1]).player_ids) = 3
        /\ Cardinality(MatchedCards(SessionOf(in[1]))) = 2

\* The rooms that are in the table before and after the step
Kept == (DOMAIN games) \cap (DOMAIN games')

\* Session s has no current-turn player
NoTurn(s) == s.current_player_id = None /\ TurnHolders(s) = {}

\* C13: a session stays in Waiting with no current-turn player while fewer
\* than two players have joined, and the join that brings the player count
\* to two moves it to InProgress in the same step, with current_player one
\* of the joined players and that player's is_turn = true.
C13_StartsWithSecondPlayer ==
    [][/\ \A r \in (DOMAIN games') \ (DOMAIN games) :
             /\ Len(games'[r].player_ids) = 1
             /\ games'[r].state = WAITING_FOR_PLAYERS
             /\ NoTurn(games'[r])
       /\ \A r \in Kept :
             games[r].state = WAITING_FOR_PLAYERS =>
                /\ Len(games[r].player_ids) = 1
                /\ Len(games'[r].player_ids) < 2 =>
                      games'[r].state = WAITING_FOR_PLAYERS /\ NoTurn(games'[r])
                /\ Len(games'[r].player_ids) >= 2 =>
                      /\ Len(games'[r].player_ids) = 2
                      /\ games'[r].state = IN_PROGRESS
                      /\ games'[r].current_player_id \in Range(games'[r].player_ids)
                      /\ games'[r].players[games'[r].current_player_id].is_turn]_vars

\* C13 witness: the second player has just joined: a running game of two,
\* nothing picked, with one holder of the turn.
C13_Witness ==
    \E r \in DOMAIN games :
        /\ next_id = 2
        /\ Len(games[r].player_ids) = 2
        /\ games[r].state = IN_PROGRESS
        /\ games[r].current_player_id \in Range(games[r].player_ids)
        /\ Cardinality(TurnHolders(games[r])) = 1

\* C14: the lifecycle state of a session only moves forward: once it is
\* Finished no later operation changes it, and no operation takes an
\* InProgress session back to Waiting.
C14_LifecycleForward ==
    [][\A r \in Kept :
          /\ games[r].state = FINISHED => games'[r].state = FINISHED
          /\ games[r].state = IN_PROGRESS => games'[r].state # WAITING_FOR_PLAYERS]_vars

\* The step is a reveal request that resolves a pair in room r as a match
ResolvesMatch(r) ==
    /\ MatchedCards(games[r]) # MatchedCards(games'[r])
    /\ games'[r].revealed_cards = <<>>
    /\ timers' = timers

\* C15: a session becomes Finished in exactly the reveal step whose
\* resolution leaves every card matched: that step always sets state =
\* Finished, no other step sets it, and state = Finished implies that every
\* card is matched.
C15_FinishedExactlyWhenAllMatched ==
    /\ [](\A r \in DOMAIN games : games[r].state = FINISHED => AllMatched(games[r]))
    /\ [][\A r \in Kept :
             /\ (ResolvesMatch(r) /\ AllMatched(games'[r])) => games'[r].state = FINISHED
             /\ (games[r].state # FINISHED /\ games'[r].state = FINISHED) =>
                    ResolvesMatch(r) /\ AllMatched(games'[r]) /\ ~AllMatched(games[r])]_vars

\* C15 witness: a finished game.
C15_Witness ==
    \E r \in DOMAIN games : games[r].state = FINISHED /\ AllMatched(games[r])

\* The join_room requests that can be sent in a state: by any open
\* connection, for any room id, with any outcome of random.choice
JoinInputs ==
    {in \in Connections \X RegRoomIds \X Connections :
        /\ Open(in[1])
        /\ in[3] \in Choices(join_room(games, client_to_game, in[2], in[1], in[3]), in[2], in[1])}

JoinCall(in) == join_room(games, client_to_game, in[2], in[1], in[3])

\* C16: every room has at most 4 players; a join request to a room that
\* already has 4 players returns a failure (room full), adds no player,
\* records no back-reference and changes nothing else in the session.
C16_AtMostFourPlayers ==
    /\ \A r \in DOMAIN games : Len(games[r].player_ids) <= 4
    /\ \A in \in JoinInputs :
          (in[2] \in DOMAIN games /\ Len(games[in[2]].player_ids) = 4) =>
              /\ ~JoinCall(in).success
              /\ JoinResponse(games, client_to_game, in[2], in[1], in[3])
                     = [success |-> FALSE, message |-> "Room is full"]
              /\ JoinCall(in).games = games
              /\ JoinCall(in).client_to_game = client_to_game

\* C16 witness: a room with four players and a fifth connection, not in the
\* room, that can ask to join it.
C16_Witness ==
    \E in \in JoinInputs :
        /\ in[2] \in DOMAIN games
        /\ Len(games[in[2]].player_ids) = 4
        /\ in[1] \notin Range(games[in[2]].player_ids)

JoinRefused(in, message) ==
    LET resp == JoinResponse(games, client_to_game, in[2], in[1], in[3])
    IN  ~resp.success /\ resp.message = message

RoomsOf(g, p) == {r \in DOMAIN g : p \in Range(g[r].player_ids)}

\* C18: after Cleanup(p) for a player p that has joined rooms, p is a member
\* of no room's player map and has no back-reference, a room whose last
\* player was removed is no longer in the room table, and all other rooms and
\* players are unchanged.
C18_CleanupRemovesPlayer ==
    \A p \in DOMAIN client_to_game :
        LET v == cleanup_client(games, client_to_game, p)
        IN  /\ RoomsOf(v.games, p) = {}
            /\ p \notin DOMAIN v.client_to_game
            /\ \A r \in DOMAIN games :
                  IF Range(games[r].player_ids) = {p}
                  THEN r \notin DOMAIN v.games
                  ELSE /\ r \in DOMAIN v.games
                       /\ v.games[r] = [games[r] EXCEPT !.player_ids = Remove(@, p),
                                                        !.players = DictDel(@, p)]
            /\ DOMAIN v.games \subseteq DOMAIN games
            /\ \A q \in (DOMAIN client_to_game) \ {p} :
                  q \in DOMAIN v.client_to_game /\ v.client_to_game[q] = client_to_game[q]

\* C19: Cleanup(p) for a player that is in no room (the registry has no
\* back-reference for it) changes no state and raises no error, and running
\* Cleanup(p) twice yields the same state as running it once.
C19_CleanupIdempotent ==
    \A p \in Connections :
        LET once == cleanup_client(games, client_to_game, p)
            twice == cleanup_client(once.games, once.client_to_game, p)
        IN  /\ p \notin DOMAIN client_to_game =>
                  once = [games |-> games, client_to_game |-> client_to_game]
            /\ twice = once

\* C19 witness: two rooms, a player with a back-reference whose cleanup
\* changes the tables, and a closed connection that has none left.
C19_Witness ==
    /\ Cardinality(DOMAIN games) = 2
    /\ \E p \in DOMAIN client_to_game :
          cleanup_client(games, client_to_game, p).games # games
    /\ \E p \in closed : p \notin DOMAIN client_to_game

\* C20: CreateRoom returns a room identifier that was not a key of the room
\* table before the call, and leaves every room that existed before
\* unchanged in the table.
C20_CreateRoomFresh ==
    \A room_id \in RegRoomIds, level \in Levels, layout \in RegLayouts :
        LET g == create_room(games, room_id, level, layout)
        IN  /\ room_id \notin DOMAIN games
            /\ \A r \in DOMAIN games : r \in DOMAIN g /\ g[r] = games[r]

\* A worker is inside reveal_card: it has been called and has not returned
InReveal(w) == thr[w].pc \notin {"idle", "done"}

\* C21: the unresolved list (revealed_cards) of a session never has more
\* than 2 entries, and has 0 or 1 entries whenever no reveal_card call on the
\* session is under way, under any interleaving of the requests on the room.
C21_UnresolvedListBounded ==
    /\ Len(Sess.revealed_cards) <= 2
    /\ (\A w \in Workers : ~InReveal(w)) => Len(Sess.revealed_cards) <= 1

----------------------------------------------------------------------------
(* HideSpec: the bodies of the timer threads executed card by card. The    *)
(* threads are plain daemon threads and take no lock, so the requests of   *)
(* the room and the other timer bodies run between the iterations of a     *)
(* body's loop. thr[k] is the body running in slot k.                      *)

\* Timer bodies that are past their sleep at the same time
MaxRunning == 2

Slots == 1 .. MaxRunning

HideRoom == "R1"

NoBody == [room |-> "", target |-> "none", todo |-> <<>>]

\* The cards the loop of a timer body goes through, in order: self.cards for
\* hide_all_cards, revealed_copy for hide_cards_later
LoopCards(t) ==
    IF t.target = "hide_all_cards" THEN [i \in 1 .. NumCards |-> i - 1] ELSE t.cards

\* One iteration of the loop on card i: hide_all_cards skips a matched card
HideCard(s, target, i) ==
    IF target = "hide_all_cards" /\ s.cards[i].is_matched
    THEN s
    ELSE [s EXCEPT !.cards = [@ EXCEPT ![i] = [@ EXCEPT !.is_revealed = FALSE]]]

\* time.sleep(...) returns: the body of a started thread begins
TimerBegins(t, k) ==
    /\ t \in BagToSet(timers)
    /\ t.room \in DOMAIN games
    /\ thr[k] = NoBody
    /\ \A j \in Slots : j < k => thr[j] # NoBody
    /\ timers' = timers (-) SetToBag({t})
    /\ thr' = [thr EXCEPT ![k] = [room |-> t.room, target |-> t.target, todo |-> LoopCards(t)]]
    /\ UNCHANGED <<games, client_to_game, next_id, base, shown, closed, lbvars>>

\* for card in ...: card.is_revealed = False (one iteration)
TimerStep(k) ==
    /\ thr[k].todo # <<>>
    /\ games' = [games EXCEPT ![thr[k].room] = HideCard(@, thr[k].target, Head(thr[k].todo))]
    /\ thr' = [thr EXCEPT ![k] = [@ EXCEPT !.todo = Tail(@)]]
    /\ UNCHANGED <<client_to_game, next_id, timers, base, shown, closed, lbvars>>

\* The loop is over: self.broadcast_game_update(), and the thread ends
TimerEnds(k) ==
    /\ thr[k] # NoBody
    /\ thr[k].todo = <<>>
    /\ thr' = [thr EXCEPT ![k] = NoBody]
    /\ UNCHANGED <<games, client_to_game, next_id, timers, base, shown, closed, lbvars>>

\* A room that two players have joined (its game has started; in easy mode
\* the preview is on and its hide_all_cards thread sleeps)
HideInit ==
    /\ \E level \in Levels, layout \in RegLayouts, choice \in {1, 2} :
          /\ games = [r \in {HideRoom} |->
                         add_player(add_player(GameSession(level, layout), 1, 1).session,
                                    2, choice).session]
          /\ timers = IF level = "easy" THEN SetToBag({HideAllTimer(HideRoom)}) ELSE EmptyBag
    /\ client_to_game = [c \in {1, 2} |-> HideRoom]
    /\ next_id = 2
    /\ thr = [k \in Slots |-> NoBody]
    /\ base = <<>>
    /\ shown = {}
    /\ closed = {}
    /\ NoBalancer

\* The started timer threads, asleep or in their body
Threads == BagCardinality(timers) + Cardinality({k \in Slots : thr[k] # NoBody})

\* A request that starts a thread is taken while fewer than MaxTimers run
HideJoin(c, choice) ==
    /\ JoinRoom(c, HideRoom, choice)
    /\ BagCardinality(timers') > BagCardinality(timers) => Threads < MaxTimers

HideReveal(c, card_id) ==
    /\ RevealCard(c, card_id)
    /\ BagCardinality(timers') > BagCardinality(timers) => Threads < MaxTimers

HideNext ==
    \/ /\ \E choice \in ClientIds : HideJoin(next_id + 1, choice)
       /\ UNCHANGED <<shown, closed, lbvars>>
    \/ /\ \E c \in ClientIds, card_id \in CardIds : HideReveal(c, card_id)
       /\ UNCHANGED <<shown, closed, lbvars>>
    \/ \E t \in BagToSet(timers), k \in Slots : TimerBegins(t, k)
    \/ \E k \in Slots : TimerStep(k)
    \/ \E k \in Slots : TimerEnds(k)

HideSpec == HideInit /\ [][HideNext]_vars

\* The body in slot k has hidden some of its cards and not yet all of them
PartlyApplied(k) ==
    /\ thr[k] # NoBody
    /\ thr[k].todo # <<>>
    /\ Len(thr[k].todo) < Len(LoopCards([target |-> thr[k].target, cards |-> <<0, 0>>]))

\* C22: the body of a timer callback is never interleaved with a reveal, a
\* join/start or another timer body on the same session: while a body has
\* hidden some of its cards and not all, the only step taken is that body's
\* next step, so no request meets a partially applied hide.
C22_TimerBodiesExclusive ==
    [][\A k \in Slots : PartlyApplied(k) => thr'[k] # thr[k]]_vars

----------------------------------------------------------------------------
(* CastSpec: a reveal_card request whose broadcast_to_room runs send by    *)
(* send, while the threads of the other connections join and leave the     *)
(* room. thr is the position of the handling thread.                       *)

CastRoom == "R1"

Waiting == [pc |-> "idle", player_id |-> None, primary |-> <<>>, response |-> <<>>,
            message |-> <<>>, used |-> 0, last |-> None, attempted |-> {}, members |-> {},
            raised |-> FALSE]

ServerError == [success |-> FALSE, message |-> "Server error"]

\* len(game.players) of the session the broadcast iterates
PlayersLen == IF CastRoom \in DOMAIN games THEN Len(games[CastRoom].player_ids) ELSE 0

\* The entries the dict iterator has not passed: the players inserted after
\* the one it yielded last (player ids grow in insertion order)
NotPassed ==
    IF CastRoom \in DOMAIN games
    THEN {p \in Range(games[CastRoom].player_ids) : p > thr.last}
    ELSE {}

\* handle_client_message, action == 'reveal_card': reveal_card, the response
\* with its game_state, then broadcast_to_room creates the iterator over
\* game.players.values()
CastCall(c, card_id) ==
    /\ thr.pc = "idle"
    /\ InGame(c)
    /\ client_to_game[c] = CastRoom
    /\ LET v == RevealCall(c, card_id)
       IN  /\ v.hide # <<>> => BagCardinality(timers) < MaxTimers
           /\ games' = [games EXCEPT ![CastRoom] = v.session]
           /\ timers' = IF v.hide # <<>>
                        THEN StartTimer(timers, HideLaterTimer(CastRoom, v.hide))
                        ELSE timers
           /\ thr' = IF v.raised
                     THEN [Waiting EXCEPT !.pc = "done", !.player_id = c,
                                          !.primary = ServerError, !.response = ServerError]
                     ELSE [Waiting EXCEPT !.pc = "next", !.player_id = c,
                                          !.primary = RevealResponse(c, card_id),
                                          !.response = RevealResponse(c, card_id),
                                          !.message = [type |-> "game_update",
                                                       result |-> v.result,
                                                       game_state |-> get_game_state(v.session)],
                                          !.used = Len(v.session.player_ids),
                                          !.members = Range(v.session.player_ids)]
    /\ UNCHANGED <<client_to_game, next_id, base, shown, closed, lbvars>>

\* for player in game.players.values(): the iterator's next(). It raises
\* RuntimeError (dictionary changed size during iteration) when the size is
\* not the one it started with; the for statement is outside the try of the
\* loop body, so the except clause of handle_client_message takes it.
CastNextPlayer ==
    /\ thr.pc = "next"
    /\ thr' = IF PlayersLen # thr.used
              THEN [thr EXCEPT !.pc = "done", !.raised = TRUE, !.response = ServerError]
              ELSE IF NotPassed = {}
              THEN [thr EXCEPT !.pc = "done"]
              ELSE [thr EXCEPT !.pc = "send",
                               !.last = CHOOSE p \in NotPassed : \A q \in NotPassed : p <= q]
    /\ UNCHANGED <<games, client_to_game, next_id, timers, base, shown, closed, lbvars>>

\* self.send_message(player.socket, message): a failed send is logged by
\* send_message and the loop goes on
CastSend(ok) ==
    /\ thr.pc = "send"
    /\ thr' = [thr EXCEPT !.pc = "next", !.attempted = @ \cup {thr.last}]
    /\ UNCHANGED <<games, client_to_game, next_id, timers, base, shown, closed, lbvars>>

\* return response; handle_client sends it and waits for the next request
CastReturn ==
    /\ thr.pc = "done"
    /\ thr' = Waiting
    /\ UNCHANGED <<games, client_to_game, next_id, timers, base, shown, closed, lbvars>>

\* The thread of another connection ends its handle_client loop
CastLeave(c) ==
    /\ thr.pc # "idle" => c # thr.player_id
    /\ Disconnect(c)

\* A room that two players have joined
CastInit ==
    /\ \E layout \in RegLayouts, choice \in {1, 2} :
          games = [r \in {CastRoom} |->
                      add_player(add_player(GameSession("normal", layout), 1, 1).session,
                                 2, choice).session]
    /\ client_to_game = [c \in {1, 2} |-> CastRoom]
    /\ next_id = 2
    /\ timers = EmptyBag
    /\ thr = Waiting
    /\ base = <<>>
    /\ shown = {}
    /\ closed = {}
    /\ NoBalancer

CastNext ==
    \/ \E c \in ClientIds, card_id \in CardInputs : CastCall(c, card_id)
    \/ CastNextPlayer
    \/ \E ok \in BOOLEAN : CastSend(ok)
    \/ CastReturn
    \/ /\ \E choice \in ClientIds : JoinRoom(next_id + 1, CastRoom, choice)
       /\ UNCHANGED <<shown, closed, lbvars>>
    \/ /\ \E c \in ClientIds : CastLeave(c)
       /\ UNCHANGED <<shown, closed, lbvars>>
    \/ /\ \E t \in BagToSet(timers) : TimerFires(t)
       /\ UNCHANGED <<shown, closed, lbvars>>

CastSpec == CastInit /\ [][CastNext]_vars

\* The players that were in the room's player map during the whole broadcast
Members ==
    IF CastRoom \in DOMAIN games
    THEN thr.members \cap Range(games[CastRoom].player_ids)
    ELSE {}

\* C23: a broadcast to a room attempts delivery to every player of the
\* room's player map, whatever the outcome of the single sends; it does not
\* raise out of the broadcast and the request keeps its primary response,
\* also when players join or leave the room while the broadcast is going on.
C23_BroadcastReachesEveryPlayer ==
    (thr.pc = "done" /\ thr.primary # ServerError) =>
        /\ ~thr.raised
        /\ thr.response = thr.primary
        /\ Members \subseteq thr.attempted

\* C24: every accepted reveal is followed by a game_update broadcast to the
\* members of the room (the same holds for every timer-driven hide), and the
\* game_state it carries is the session state after the mutation: here, once
\* the handler of an accepted reveal is through, every player who was in the
\* room all along has been sent the message, and the message shows the
\* picked card revealed.
C24_UpdateFollowsMutation ==
    (thr.pc = "done" /\ thr.primary.success) =>
        /\ Members \subseteq thr.attempted
        /\ thr.message.type = "game_update"
        /\ thr.message.game_state.cards[thr.primary.card.id].revealed

----------------------------------------------------------------------------
(* LBSpec: the load balancer (src/loadbalancer.py). Backends go down and   *)
(* come back, the health check loop refreshes the flags, and client        *)
(* connections are proxied to the backend that select_server returns.      *)

\* Backends in the pool (LoadBalancer.servers), in pool order
NumBackends == 3

\* Proxied connections under way at the same time
MaxOpen == 2

\* Selections made by the round-robin strategy
MaxSelections == 4

Backends == 1 .. NumBackends

LBRooms == {"R1"}

Strategies == {"round_robin", "least_connections", "weighted_response_time"}

\* Values of ServerHealth.response_time, in tenths of a second
ResponseTimes == {0, 2}

\* ServerHealth.__init__
ServerHealth == [is_healthy |-> TRUE, connection_count |-> 0, response_time |-> 0]

\* get_healthy_servers that returns the whole pool
get_healthy_servers_all(sv) == [i \in 1 .. NumBackends |-> i]

\* get_healthy_servers: [s for s in self.servers if s.is_healthy]
get_healthy_servers(sv) ==
    SelectSeq([i \in 1 .. NumBackends |-> i], LAMBDA b : sv[b].is_healthy)

\* min(healthy_servers, key=...) that returns the last of the smallest
MinBy_last(h, key) ==
    h[CHOOSE i \in 1 .. Len(h) :
         /\ \A j \in 1 .. Len(h) : key[h[i]] <= key[h[j]]
         /\ \A j \in (i + 1) .. Len(h) : key[h[j]] > key[h[i]]]

\* min(healthy_servers, key=...): the first element whose key is smallest
MinBy(h, key) ==
    h[CHOOSE i \in 1 .. Len(h) :
         /\ \A j \in 1 .. Len(h) : key[h[i]] <= key[h[j]]
         /\ \A j \in 1 .. (i - 1) : key[h[j]] > key[h[i]]]

\* _round_robin: [server, index]
round_robin(sv, index) ==
    LET healthy_servers == get_healthy_servers(sv)
    IN  IF healthy_servers = <<>>
        THEN [server |-> None, index |-> index]
        ELSE [server |-> healthy_servers[(index % Len(healthy_servers)) + 1],
              index |-> index + 1]

\* _least_connections
least_connections(sv) ==
    LET healthy_servers == get_healthy_servers(sv)
    IN  IF healthy_servers = <<>>
        THEN None
        ELSE MinBy(healthy_servers, [b \in Backends |-> sv[b].connection_count])

\* _weighted_response_time: score = response_time + connection_count * 0.1
\* (here in tenths of a second)
weighted_response_time(sv) ==
    LET healthy_servers == get_healthy_servers(sv)
    IN  IF healthy_servers = <<>>
        THEN None
        ELSE MinBy(healthy_servers,
                   [b \in Backends |-> sv[b].response_time + sv[b].connection_count])

\* select_server: [server, index]; an unknown strategy name falls back to
\* _least_connections
select_server(sv, index, strategy) ==
    IF strategy = "round_robin"
    THEN round_robin(sv, index)
    ELSE IF strategy = "weighted_response_time"
    THEN [server |-> weighted_response_time(sv), index |-> index]
    ELSE [server |-> least_connections(sv), index |-> index]

NoServers ==
    [success |-> FALSE, message |-> "No game servers available. Please try again later."]

\* max(0, selected_server.connection_count - 1)
Decrement(n) == IF n - 1 > 0 THEN n - 1 ELSE 0

\* proxy_connection up to the start of the forwarding threads. up[b] tells
\* whether server_socket.connect to backend b succeeds. selected is the
\* backend select_server returned, forwarded the backend the client is
\* connected through to (None: the client socket is closed), response what
\* the balancer itself has sent to the client (<<>>: nothing).
proxy_connection(sv, index, strategy, up) ==
    LET sel == select_server(sv, index, strategy)
        b == sel.server
    IN  IF b = None
        THEN [servers |-> sv, index |-> sel.index, selected |-> None,
              forwarded |-> None, response |-> NoServers]
        ELSE IF up[b]
        THEN [servers |-> [sv EXCEPT ![b] = [@ EXCEPT !.connection_count = @ + 1]],
              index |-> sel.index, selected |-> b, forwarded |-> b, response |-> <<>>]
        ELSE [servers |-> [sv EXCEPT ![b] = [@ EXCEPT !.connection_count = Decrement(@)]],
              index |-> sel.index, selected |-> b, forwarded |-> None, response |-> <<>>]

gamevars == <<games, client_to_game, next_id, timers, thr, base, shown, closed>>

\* What proxy_connection does with a connection accepted in this state
ProxyCall == proxy_connection(servers, round_robin_index, current_strategy, net.up)

\* The proxied connections under way, over the whole pool
RECURSIVE OpenUpTo(_)
OpenUpTo(b) == IF b = 0 THEN 0 ELSE net.open[b] + OpenUpTo(b - 1)

OpenCount == OpenUpTo(NumBackends)

\* A backend stops or starts accepting connections
BackendChanges(b) ==
    /\ net' = [net EXCEPT !.up = [@ EXCEPT ![b] = ~@]]
    /\ UNCHANGED <<servers, round_robin_index, current_strategy, gamevars>>

\* health_check_loop: server.check_health() on one server of the pool
HealthCheck(b, rt) ==
    /\ servers' = [servers EXCEPT ![b] = [@ EXCEPT !.is_healthy = net.up[b],
                                                   !.response_time = rt]]
    /\ UNCHANGED <<round_robin_index, current_strategy, net, gamevars>>

\* start: a client connection is accepted and proxy_connection runs for it;
\* r is the room its request is about (the room is created on the backend
\* that the first request about it is forwarded to)
ProxyConnection(r) ==
    LET v == ProxyCall
    IN  /\ v.index <= MaxSelections
        /\ v.forwarded # None => OpenCount < MaxOpen
        /\ servers' = v.servers
        /\ round_robin_index' = v.index
        /\ net' = [net EXCEPT
                      !.open = IF v.forwarded # None
                               THEN [@ EXCEPT ![v.forwarded] = @ + 1]
                               ELSE @,
                      !.last = IF v.selected # None THEN v.selected ELSE @,
                      !.home = IF v.forwarded # None /\ r \notin DOMAIN @
                               THEN DictPut(@, r, v.forwarded)
                               ELSE @]
        /\ UNCHANGED <<current_strategy, gamevars>>

\* The forwarding threads of a proxied connection end: the finally clause
ProxyClose(b) ==
    /\ net.open[b] > 0
    /\ servers' = [servers EXCEPT ![b] = [@ EXCEPT !.connection_count = Decrement(@)]]
    /\ net' = [net EXCEPT !.open = [@ EXCEPT ![b] = @ - 1]]
    /\ UNCHANGED <<round_robin_index, current_strategy, gamevars>>

\* main: the servers are added, the strategy is the one of the command line
LBInit ==
    /\ servers = [b \in Backends |-> ServerHealth]
    /\ round_robin_index = 0
    /\ current_strategy \in Strategies
    /\ net = [up |-> [b \in Backends |-> TRUE], open |-> [b \in Backends |-> 0],
              last |-> None, home |-> <<>>]
    /\ games = <<>>
    /\ client_to_game = <<>>
    /\ next_id = 0
    /\ timers = EmptyBag
    /\ thr = <<>>
    /\ base = <<>>
    /\ shown = {}
    /\ closed = {}

LBNext ==
    \/ \E b \in Backends : BackendChanges(b)
    \/ \E b \in Backends, rt \in ResponseTimes : HealthCheck(b, rt)
    \/ \E r \in LBRooms : ProxyConnection(r)
    \/ \E b \in Backends : ProxyClose(b)

LBSpec == LBInit /\ [][LBNext]_vars

\* C25: once a room has been created through the balancer on backend b,
\* every later client connection whose request carries that room's room_id
\* (or the player_id of one of its players) is forwarded to b, whichever
\* backend the active strategy would select.
C25_RoomAffinity ==
    \A r \in DOMAIN net.home :
        ProxyCall.forwarded # None => ProxyCall.forwarded = net.home[r]

\* Some backend of the pool accepts connections
SomeUp == \E b \in Backends : net.up[b]

\* C26: when the connect to the backend first chosen for a connection fails,
\* the balancer retries against the other backends of the pool (the client
\* is connected through if one of them accepts), and the client gets the
\* service-unavailable response only if every backend fails.
C26_RetryOtherBackends ==
    LET v == ProxyCall
    IN  (v.selected # None /\ ~net.up[v.selected]) =>
            /\ SomeUp => (v.forwarded # None /\ net.up[v.forwarded])
            /\ ~SomeUp => v.response = NoServers

\* C27: a client connection that the balancer cannot forward (no healthy
\* backend, or the connect to the selected backend fails) is sent a failure
\* response before it is closed (and the balancer goes on serving).
C27_FailureIsAnswered ==
    LET v == ProxyCall
    IN  v.forwarded = None => (v.response # <<>> /\ ~v.response.success)

Healthy == {b \in Backends : servers[b].is_healthy}

\* C28: under each of the three strategies select_server never returns a
\* backend whose is_healthy flag is false at the time of the selection, and
\* it returns no backend only when no backend of the pool is healthy.
C28_SelectsHealthy ==
    \A strategy \in Strategies :
        LET s == select_server(servers, round_robin_index, strategy).server
        IN  /\ s # None => s \in Healthy
            /\ s = None => Healthy = {}

\* C28 witness: a selection is made while the pool has a healthy backend and
\* an unhealthy one, the unhealthy one being the first of the pool and the
\* one with the fewest connections.
C28_Witness ==
    /\ ~servers[1].is_healthy
    /\ Healthy # {}
    /\ \A b \in Healthy : servers[b].connection_count > servers[1].connection_count
    /\ ProxyCall.selected \in Healthy

\* Steps from backend b to backend h going round the pool (a full round
\* when h = b)
Ahead(b, h) == IF h > b THEN h - b ELSE h - b + NumBackends

\* The next healthy backend after b in pool order, wrapping
NextHealthyAfter(b) ==
    CHOOSE h \in Healthy : \A g \in Healthy : Ahead(b, h) <= Ahead(b, g)

\* C29: under round-robin consecutive selections cycle through the healthy
\* backends in pool order: each selection returns the next healthy backend
\* after the previously selected one (wrapping), also when backends turn
\* healthy or unhealthy between the selections.
C29_RoundRobinCycles ==
    (current_strategy = "round_robin" /\ net.last # None /\ Healthy # {}) =>
        round_robin(servers, round_robin_index).server = NextHealthyAfter(net.last)

\* C30: under least-connections the selected backend is healthy, no healthy
\* backend has a strictly smaller connection_count at the time of the
\* selection, and of the healthy backends with that count it is the earliest
\* in pool order.
C30_LeastConnections ==
    LET s == least_connections(servers)
    IN  /\ select_server(servers, round_robin_index, "least_connections").server = s
        /\ s = None <=> Healthy = {}
        /\ s # None =>
              /\ s \in Healthy
              /\ \A h \in Healthy : servers[s].connection_count <= servers[h].connection_count
              /\ \A h \in Healthy :
                    servers[h].connection_count = servers[s].connection_count => s <= h

\* C30 witness: least-connections is the active strategy and selects among
\* three healthy backends, the first of which is the busiest while the other
\* two tie.
C30_Witness ==
    /\ current_strategy = "least_connections"
    /\ Healthy = Backends
    /\ servers[1].connection_count > servers[2].connection_count
    /\ servers[2].connection_count = servers[3].connection_count
    /\ ProxyCall.selected = 2

\* C31: for every backend, connection_count is never negative and equals
\* the number of proxied connections to it that have connected and not yet
\* ended; in particular a proxy attempt whose connect fails leaves every
\* connection_count as it was.
C31_ConnectionCountExact ==
    \A b \in Backends :
        /\ servers[b].connection_count >= 0
        /\ servers[b].connection_count = net.open[b]

\* The easy-mode preview of room r lasts: a hide_all_cards thread started by
\* start_game has not yet run
PreviewLasts(r) == CopiesIn(HideAllTimer(r), timers) > 0

\* C32: in easy mode the step that starts the game marks every card
\* revealed; while the preview lasts no reveal is accepted; and when the
\* preview-expiry timer has run, every card that is not matched is hidden
\* while the matched cards are untouched.
C32_EasyPreview ==
    [][\A r \in Kept :
          /\ CopiesIn(HideAllTimer(r), timers') > CopiesIn(HideAllTimer(r), timers) =>
                \A i \in CardIds : games'[r].cards[i].is_revealed
          /\ PreviewLasts(r) =>
                \A in \in RevealInputs :
                    client_to_game[in[1]] = r =>
                        LET v == RevealCall(in[1], in[2])
                        IN  v.raised \/ ~v.result.success
          /\ CopiesIn(HideAllTimer(r), timers') < CopiesIn(HideAllTimer(r), timers) =>
                \A i \in CardIds :
                    IF games[r].cards[i].is_matched
                    THEN games'[r].cards[i] = games[r].cards[i]
                    ELSE ~games'[r].cards[i].is_revealed]_vars

\* The hide_cards_later threads of room r that have not yet run
PendingHides(tm, r) == {t \in BagToSet(tm) : t.room = r /\ t.target = "hide_cards_later"}

\* Session s2 differs from s1 in nothing but the is_revealed flags of the
\* cards in xs
OnlyRevealedOf(s1, s2, xs) ==
    /\ s2 = [s1 EXCEPT !.cards = s2.cards]
    /\ \A i \in CardIds :
          IF i \in xs
          THEN s2.cards[i] = [s1.cards[i] EXCEPT !.is_revealed = s2.cards[i].is_revealed]
          ELSE s2.cards[i] = s1.cards[i]

\* The firing of a mismatch-hide timer changes only the is_revealed flags of
\* its two cards
HideLaterFrame ==
    \A r \in Kept : \A t \in PendingHides(timers, r) :
        CopiesIn(t, timers') < CopiesIn(t, timers) =>
            OnlyRevealedOf(games[r], games'[r], Range(t.cards))

\* The two cards of a mismatch are revealed for as long as their timer has
\* not fired
ShownUntilHidden ==
    \A r \in DOMAIN games : \A t \in PendingHides(timers, r) :
        \A i \in Range(t.cards) : games[r].cards[i].is_revealed

\* C33: the mismatch-hide timer for cards x and y changes only the
\* is_revealed flags of x and y (the other cards, the unresolved list, the
\* scores, the turn and the lifecycle state are unchanged by its firing), and
\* x and y stay revealed, hence not selectable, from the mismatch until the
\* timer fires.
C33_MismatchHideFrame == [][HideLaterFrame /\ ShownUntilHidden]_vars

----------------------------------------------------------------------------
(* finish_game's ranking *)

\* Sorted insertion that puts an entry before the entries of equal score
Place_before(sorted, e) ==
    LET k == Cardinality({i \in 1 .. Len(sorted) : sorted[i][2] > e[2]})
    IN  SubSeq(sorted, 1, k) \o <<e>> \o SubSeq(sorted, k + 1, Len(sorted))

\* scores.sort(key=lambda x: x[1], reverse=True) is stable: an entry goes
\* after every entry already placed whose score is not smaller
Place(sorted, e) ==
    LET k == Cardinality({i \in 1 .. Len(sorted) : sorted[i][2] >= e[2]})
    IN  SubSeq(sorted, 1, k) \o <<e>> \o SubSeq(sorted, k + 1, Len(sorted))

RECURSIVE SortScores(_)
SortScores(scores) ==
    IF scores = <<>>
    THEN <<>>
    ELSE Place(SortScores(SubSeq(scores, 1, Len(scores) - 1)), scores[Len(scores)])

\* The list finish_game returns: scores = [(pid, player.score) for pid,
\* player in self.players.items()], sorted by score, largest first
final_ranking(s) ==
    SortScores([i \in 1 .. Len(s.player_ids) |-> <<s.player_ids[i], s.players[s.player_ids[i]].score>>])

\* C34: the final ranking computed on finishing lists every player of the
\* session exactly once, ordered by score descending, with players of equal
\* score in join order.
C34_FinalRanking ==
    \A r \in DOMAIN games :
        LET s == games[r]
            rk == final_ranking(s)
        IN  /\ Len(rk) = Len(s.player_ids)
            /\ {rk[i][1] : i \in 1 .. Len(rk)} = Range(s.player_ids)
            /\ \A i \in 1 .. Len(rk) : rk[i][2] = s.players[rk[i][1]].score
            /\ \A i \in 1 .. Len(rk) : \A j \in (i + 1) .. Len(rk) :
                  /\ rk[i][2] >= rk[j][2]
                  /\ rk[i][2] = rk[j][2] =>
                        IndexOf(s.player_ids, rk[i][1]) < IndexOf(s.player_ids, rk[j][1])

\* C34 witness: a finished game of three players in which two players tie
\* with one pair each
C34_Witness ==
    \E r \in DOMAIN games :
        /\ games[r].state = FINISHED
        /\ Len(games[r].player_ids) = 3
        /\ \E p \in Range(games[r].player_ids), q \in Range(games[r].player_ids) :
              p # q /\ games[r].players[p].score = 1 /\ games[r].players[q].score = 1

----------------------------------------------------------------------------
(* MsgSpec: the receive loop of handle_client (server.py) fed with broken  *)
(* messages among the reveals, joins and timers of a room, one request at  *)
(* a time. thr holds the connections whose loop has ended and the broken   *)
(* message being answered.                                                 *)

MsgRoom == "R1"

\* Broken messages: bytes that are not UTF-8, text that is not JSON, JSON
\* that is not an object, an object with an unknown action, a reveal_card
\* without card_id, a reveal_card whose card_id is a string
BrokenMessages ==
    {"undecodable", "invalid_json", "not_object", "unknown_action",
     "reveal_no_card_id", "reveal_text_card_id"}

Listening == [ended |-> {}, last |-> <<>>]

\* handle_client_message on a broken message that json.loads accepted: the
\* response. message.get on a non-object raises AttributeError; reveal_card
\* compares card_id with len(self.cards) after the turn check, and None or a
\* string raises TypeError there; both reach the except clause.
BrokenResponse(g, c2g, player_id, message) ==
    IF message = "not_object"
    THEN ServerError
    ELSE IF message = "unknown_action"
    THEN [success |-> FALSE, message |-> "Unknown action"]
    ELSE IF ~(player_id \in DOMAIN c2g /\ c2g[player_id] \in DOMAIN g)
    THEN [success |-> FALSE, message |-> "Not in a game"]
    ELSE LET s == g[c2g[player_id]]
         IN  IF s.current_player_id # player_id \/ s.state # IN_PROGRESS
             THEN [success |-> FALSE, message |-> "Not your turn",
                   game_state |-> get_game_state(s)]
             ELSE ServerError

\* One round of handle_client's loop on a broken message: [games,
\* client_to_game, loop]. recv(1024).decode() raises UnicodeDecodeError
\* outside the inner try: the loop is left, the finally clause runs
\* cleanup_client and closes the socket, nothing is sent. JSONDecodeError is
\* answered with "Invalid JSON".
handle_broken(g, c2g, player_id, message) ==
    IF message = "undecodable"
    THEN LET v == cleanup_client(g, c2g, player_id)
         IN  [games |-> v.games, client_to_game |-> v.client_to_game,
              loop |-> [running |-> FALSE, message |-> message, response |-> <<>>]]
    ELSE [games |-> g, client_to_game |-> c2g,
          loop |-> [running |-> TRUE, message |-> message,
                    response |-> IF message = "invalid_json"
                                 THEN [success |-> FALSE, message |-> "Invalid JSON"]
                                 ELSE BrokenResponse(g, c2g, player_id, message)]]

\* Connection c sends a broken message
MsgBroken(c, message) ==
    /\ c <= next_id
    /\ c \notin thr.ended
    /\ thr.last = <<>>
    /\ LET v == handle_broken(games, client_to_game, c, message)
       IN  /\ games' = v.games
           /\ client_to_game' = v.client_to_game
           /\ timers' = TimersOf(timers, DOMAIN v.games)
           /\ thr' = [ended |-> IF v.loop.running THEN thr.ended ELSE thr.ended \cup {c},
                       last |-> [player_id |-> c] @@ v.loop]
    /\ UNCHANGED <<next_id, base, shown, closed, lbvars>>

\* self.send_message(client_socket, response) and back to recv; a loop that
\* was left has closed its socket
MsgAnswered ==
    /\ thr.last # <<>>
    /\ thr' = [thr EXCEPT !.last = <<>>]
    /\ UNCHANGED <<games, client_to_game, next_id, timers, base, shown, closed, lbvars>>

\* Connection c sends a well-formed reveal_card
MsgReveal(c, card_id) ==
    /\ c \notin thr.ended
    /\ thr.last = <<>>
    /\ InGame(c)
    /\ LET v == RevealCall(c, card_id)
       IN  /\ v.hide # <<>> => BagCardinality(timers) < MaxTimers
           /\ games' = [games EXCEPT ![client_to_game[c]] = v.session]
           /\ timers' = IF v.hide # <<>>
                        THEN StartTimer(timers, HideLaterTimer(client_to_game[c], v.hide))
                        ELSE timers
    /\ UNCHANGED <<client_to_game, next_id, thr, base, shown, closed, lbvars>>

\* A room that two players have joined; every connection's loop is running
MsgInit ==
    /\ \E layout \in Layouts, choice \in {1, 2} :
          games = [r \in {MsgRoom} |->
                      add_player(add_player(GameSession("normal", layout), 1, 1).session,
                                 2, choice).session]
    /\ client_to_game = [c \in {1, 2} |-> MsgRoom]
    /\ next_id = 2
    /\ timers = EmptyBag
    /\ thr = Listening
    /\ base = <<>>
    /\ shown = {}
    /\ closed = {}
    /\ NoBalancer

MsgNext ==
    \/ \E c \in ClientIds, message \in BrokenMessages : MsgBroken(c, message)
    \/ \E c \in ClientIds, card_id \in CardInputs : MsgReveal(c, card_id)
    \/ MsgAnswered
    \/ /\ thr.last = <<>>
       /\ \E choice \in ClientIds : JoinRoom(next_id + 1, MsgRoom, choice)
       /\ UNCHANGED <<shown, closed, lbvars>>
    \/ /\ \E t \in BagToSet(timers) : TimerFires(t)
       /\ UNCHANGED <<shown, closed, lbvars>>

MsgSpec == MsgInit /\ [][MsgNext]_vars

\* C35: a request with a malformed body, or one that raises an unexpected
\* exception while it is handled (a reveal with a missing or non-integer
\* card_id), is answered with a failure response, changes no room, session
\* or registry state, and leaves the loop of its connection running for the
\* client's next message.
C35_BrokenRequestHarmless ==
    [][(thr.last = <<>> /\ thr'.last # <<>>) =>
          /\ thr'.last.running
          /\ thr'.last.player_id \notin thr'.ended
          /\ thr'.last.response # <<>>
          /\ ~thr'.last.response.success
          /\ games' = games
          /\ client_to_game' = client_to_game]_vars

\* The scores of the first n players of session s, added up
RECURSIVE ScoreSum(_, _)
ScoreSum(s, n) ==
    IF n = 0 THEN 0 ELSE s.players[s.player_ids[n]].score + ScoreSum(s, n - 1)

\* Every player id handed out so far is in the player map of s: nobody has
\* left the room
NobodyLeft(s, ids) == Len(s.player_ids) = ids

\* C36: while no player has left the room, the sum of all players' scores
\* equals the number of matched cards divided by two in every reachable
\* state, and no player's score ever decreases.
C36_ScoresCountPairs ==
    [][\A r \in DOMAIN games :
          NobodyLeft(games[r], next_id) =>
              /\ 2 * ScoreSum(games[r], Len(games[r].player_ids))
                    = Cardinality(MatchedCards(games[r]))
              /\ (r \in DOMAIN games' /\ NobodyLeft(games'[r], next_id')) =>
                    \A p \in Range(games[r].player_ids) :
                        games'[r].players[p].score >= games[r].players[p].score]_vars

\* The cards a list of picks names, as positions of the card list
PickedCards(s) == {PyIndex(s.revealed_cards[i]) : i \in DOMAIN s.revealed_cards}

UnresolvedShown(s) ==
    /\ \A i, j \in DOMAIN s.revealed_cards :
           i # j => PyIndex(s.revealed_cards[i]) # PyIndex(s.revealed_cards[j])
    /\ \A x \in PickedCards(s) : s.cards[x].is_revealed /\ ~s.cards[x].is_matched

\* C37: in every reachable state the cards of the unresolved list
\* (revealed_cards) are pairwise distinct, revealed and not matched; so no step
\* (a timer, a join) hides a card while it is the pending first pick.
C37_UnresolvedCardsShown ==
    [][/\ \A r \in DOMAIN games : UnresolvedShown(games[r])
       /\ \A r \in DOMAIN games' : UnresolvedShown(games'[r])]_vars

\* C38: whenever a session is in progress and has at least one player,
\* current_player_id names a player of the session's player map whose
\* back-reference (client_to_game) is this room.
C38_CurrentPlayerPresent ==
    \A r \in DOMAIN games :
        (games[r].state = IN_PROGRESS /\ Len(games[r].player_ids) >= 1) =>
            /\ games[r].current_player_id \in Range(games[r].player_ids)
            /\ games[r].current_player_id \in DOMAIN client_to_game
            /\ client_to_game[games[r].current_player_id] = r

\* C39: the player-to-room table and the rooms' player maps agree: player p is
\* in the player map of room r (a room of the room table) exactly when the
\* back-reference of p is r.
C39_TablesAgree ==
    \A p \in Connections, r \in RegRoomIds :
        (r \in DOMAIN games /\ p \in Range(games[r].player_ids))
            <=> (p \in DOMAIN client_to_game /\ client_to_game[p] = r)

\* The joins of a step: rooms whose player list grew by one player
Joined(r) ==
    /\ r \in Kept
    /\ Len(games'[r].player_ids) = Len(games[r].player_ids) + 1
    /\ SubSeq(games'[r].player_ids, 1, Len(games[r].player_ids)) = games[r].player_ids

\* C40: a join accepted while the session is in progress only adds the new
\* player with score 0 and is_turn = false: the current player, the other
\* players' flags and scores, the cards, the unresolved list and the state are
\* unchanged, and no preview timer is started.
C40_LateJoinOnlyAdds ==
    [][\A r \in DOMAIN games :
          (games[r].state = IN_PROGRESS /\ Joined(r)) =>
              LET s == games[r]
                  t == games'[r]
                  new == t.player_ids[Len(t.player_ids)]
              IN  /\ t.players[new].score = 0
                  /\ ~t.players[new].is_turn
                  /\ t.current_player_id = s.current_player_id
                  /\ \A p \in Range(s.player_ids) : t.players[p] = s.players[p]
                  /\ t.cards = s.cards
                  /\ t.revealed_cards = s.revealed_cards
                  /\ t.state = s.state
                  /\ CopiesIn(HideAllTimer(r), timers') = CopiesIn(HideAllTimer(r), timers)]_vars

====
